---- MODULE Spec2Model ----
(***************************************************************************)
(* A model of definitions/math/predicate.py: the Predicate value type, its *)
(* validation (__post_init__), record conversion (to_dict / from_dict),    *)
(* negation classification (is_negation), matching (matches and            *)
(* _fuzzy_match) and identity (__eq__ / __hash__).                         *)
(*                                                                         *)
(* A Python str is a sequence of one-character strings.  A Python value    *)
(* that may be of several types is a record [t |-> type tag, v |-> value]. *)
(* A call either returns or raises: an outcome is [exc |-> name, val |-> ] *)
(* with exc = "none" for a normal return.                                  *)
(***************************************************************************)
EXTENDS Integers, Sequences, FiniteSets, TLC

VARIABLES
    args,   \* args[i]: the constructor arguments of slot i (inputs, fixed at Init)
    objs,   \* objs[i]: the Predicate instance of slot i, or NoInstance
    data,   \* the mapping handed to from_dict / produced by to_dict, or NoData
    ret     \* the most recent call: what was called and how it ended

vars == <<args, objs, data, ret>>

-----------------------------------------------------------------------------
(* Bounds of the model.                                                    *)

\* Longest text enumerated exhaustively over Alphabet.
MaxLen == 2

\* The characters texts are enumerated over: a lower-case letter, an
\* upper-case letter, a space and an underscore.
Alphabet == {"a", "B", " ", "_"}

\* Confidence values are the multiples n / ConfDen, held as the integer n.
ConfDen == 2

-----------------------------------------------------------------------------
(* Python str primitives.                                                  *)

\* The whitespace str.strip() and str.split() act on: space, tab, newline.
Whitespace == {" ", "\t", "\n"}

UpperLetters == <<"A","B","C","D","E","F","G","H","I","J","K","L","M",
                  "N","O","P","Q","R","S","T","U","V","W","X","Y","Z">>
LowerLetters == <<"a","b","c","d","e","f","g","h","i","j","k","l","m",
                  "n","o","p","q","r","s","t","u","v","w","x","y","z">>

LowerChar(c) ==
    IF \E i \in DOMAIN UpperLetters : UpperLetters[i] = c
    THEN LowerLetters[CHOOSE i \in DOMAIN UpperLetters : UpperLetters[i] = c]
    ELSE c

\* str.lower()
StrLower(s) == [i \in 1..Len(s) |-> LowerChar(s[i])]

RECURSIVE LStrip(_)
LStrip(s) ==
    IF s # <<>> /\ Head(s) \in Whitespace THEN LStrip(Tail(s)) ELSE s

RECURSIVE RStrip(_)
RStrip(s) ==
    IF s # <<>> /\ s[Len(s)] \in Whitespace
    THEN RStrip(SubSeq(s, 1, Len(s) - 1))
    ELSE s

\* str.strip()
StrStrip(s) == RStrip(LStrip(s))

\* str.replace(old, new) for one-character old and new
StrReplace(s, old, new) == [i \in 1..Len(s) |-> IF s[i] = old THEN new ELSE s[i]]

\* str.split() with no argument: the maximal runs of non-whitespace, in order.
RECURSIVE SplitFrom(_, _, _)
SplitFrom(s, cur, acc) ==
    IF s = <<>>
    THEN IF cur = <<>> THEN acc ELSE Append(acc, cur)
    ELSE IF Head(s) \in Whitespace
         THEN SplitFrom(Tail(s), <<>>, IF cur = <<>> THEN acc ELSE Append(acc, cur))
         ELSE SplitFrom(Tail(s), Append(cur, Head(s)), acc)

StrSplit(s) == SplitFrom(s, <<>>, <<>>)

\* sep.join(words)
RECURSIVE StrJoin(_, _)
StrJoin(sep, words) ==
    IF words = <<>> THEN <<>>
    ELSE IF Len(words) = 1 THEN words[1]
    ELSE words[1] \o sep \o StrJoin(sep, Tail(words))

\* s1 in s2
StrIn(s1, s2) ==
    \E i \in 0..(Len(s2) - Len(s1)) : SubSeq(s2, i + 1, i + Len(s1)) = s1

\* s.startswith(prefix)
StrStartsWith(s, prefix) ==
    Len(prefix) <= Len(s) /\ SubSeq(s, 1, Len(prefix)) = prefix

\* set(words)
WordSet(words) == {words[i] : i \in DOMAIN words}

-----------------------------------------------------------------------------
(* Python values.  subj, pred and source are typed str / Optional[str];    *)
(* obj is typed Any and is held as a tagged value.                         *)

PyNone == [t |-> "none", v |-> <<>>]
PyStr(s) == [t |-> "str", v |-> s]
PyInt(n) == [t |-> "int", v |-> <<n>>]
PyEnum(name) == [t |-> "PredicateType", v |-> <<name>>]

\* x == y on two values: values of different types are unequal.
PyEq(x, y) == x.t = y.t /\ x.v = y.v

\* bool(x)
PyTruthy(x) ==
    CASE x.t = "none" -> FALSE
      [] x.t = "str" -> x.v # <<>>
      [] x.t = "int" -> x.v[1] # 0
      [] x.t = "float" -> x.v[1] # 0
      [] x.t = "dict" -> DOMAIN x.v[1] # {}
      [] OTHER -> TRUE

Digits == <<"0", "1", "2", "3", "4", "5", "6", "7", "8", "9">>

RECURSIVE NatStr(_)
NatStr(n) ==
    IF n < 10 THEN <<Digits[n + 1]>>
    ELSE Append(NatStr(n \div 10), Digits[(n % 10) + 1])

\* str(x)
PyToStr(x) ==
    CASE x.t = "str" -> x.v
      [] x.t = "int" -> IF x.v[1] < 0 THEN <<"-">> \o NatStr(-x.v[1]) ELSE NatStr(x.v[1])
      [] x.t = "none" -> <<"N", "o", "n", "e">>
      [] OTHER -> <<"P", "r", "e", "d", "i", "c", "a", "t", "e", "T", "y", "p", "e", ".">>
                      \o x.v[1]

\* class PredicateType(Enum): the value of each member.
EnumValue ==
    [ASSERTION |-> <<"a", "s", "s", "e", "r", "t", "i", "o", "n">>,
     PERMISSION |-> <<"p", "e", "r", "m", "i", "s", "s", "i", "o", "n">>,
     OBLIGATION |-> <<"o", "b", "l", "i", "g", "a", "t", "i", "o", "n">>,
     RESTRICTION |-> <<"r", "e", "s", "t", "r", "i", "c", "t", "i", "o", "n">>,
     RELATION |-> <<"r", "e", "l", "a", "t", "i", "o", "n">>]

\* PredicateType(x): the member x, or the member whose value is x, or ValueError
PredicateType(x) ==
    IF x.t = "PredicateType" THEN [exc |-> "none", val |-> x]
    ELSE IF x.t = "str" /\ \E m \in DOMAIN EnumValue : EnumValue[m] = x.v
         THEN [exc |-> "none",
               val |-> PyEnum(CHOOSE m \in DOMAIN EnumValue : EnumValue[m] = x.v)]
         ELSE [exc |-> "ValueError", val |-> PyNone]

-----------------------------------------------------------------------------
(* class Predicate                                                         *)

NoInstance == [made |-> FALSE]

\* val is the boolean a call returned; hash is the value hash() returned.
Returned(op, who, val) ==
    [op |-> op, who |-> who, exc |-> "none", val |-> val, hash |-> <<>>]
Raised(op, who, exc) ==
    [op |-> op, who |-> who, exc |-> exc, val |-> FALSE, hash |-> <<>>]
NoCall == [op |-> "none", who |-> <<>>, exc |-> "none", val |-> FALSE, hash |-> <<>>]

\* A dict is a function from its keys to values.
EmptyDict == [k \in {} |-> PyNone]
NoData == [made |-> FALSE, d |-> EmptyDict]

PyFloat(c) == [t |-> "float", v |-> <<c>>]
PyDict(d) == [t |-> "dict", v |-> <<d>>]

\* d.get(key, default)
DictGet(d, key, default) == IF key \in DOMAIN d THEN d[key] ELSE default

\* The dataclass fields, lines 14-20, as the arguments of the constructor.
CtorArgs(subj, pred, obj, confidence, source, predicate_type, metadata) ==
    [subj |-> subj, pred |-> pred, obj |-> obj, confidence |-> confidence,
     source |-> source, predicate_type |-> predicate_type, metadata |-> metadata]

\* The defaults of the dataclass fields: confidence 1.0, no source, no type, {}.
Plain(subj, pred, obj) ==
    CtorArgs(subj, pred, obj, ConfDen, PyNone, PyNone, EmptyDict)

\* A range check that excludes the endpoints 0 and 1.
ConfidenceInRange_Open(c) == 0 < c /\ c < ConfDen

\* 0 <= self.confidence <= 1, the confidence c held as c * ConfDen
ConfidenceInRange(c) == 0 <= c /\ c <= ConfDen

\* __post_init__ lines 23-26: the fields as stored
Stripped(a) ==
    [made |-> TRUE,
     subj |-> StrStrip(a.subj),
     pred |-> StrStrip(a.pred),
     obj |-> IF a.obj.t = "str" THEN PyStr(StrStrip(a.obj.v)) ELSE a.obj,
     confidence |-> a.confidence,
     source |-> a.source,
     predicate_type |-> a.predicate_type,
     metadata |-> a.metadata]

\* __post_init__: the exception it raises on the stored fields, or "none"
PostInitError(self) ==
    IF self.subj = <<>> \/ self.pred = <<>> \/ self.obj.t = "none"
    THEN "ValueError"
    ELSE IF ~ConfidenceInRange(self.confidence)
         THEN "ValueError"
         ELSE "none"

\* Predicate(subj, pred, obj, confidence, source, predicate_type, metadata):
\* the outcome, [exc, obj] with obj the new instance when exc = "none"
Predicate(a) ==
    LET self == Stripped(a)
        exc == PostInitError(self)
    IN  [exc |-> exc, obj |-> IF exc = "none" THEN self ELSE NoInstance]

\* to_triple
to_triple(self) == <<self.subj, self.pred, self.obj>>

\* A triple comparison that compares the objects by their text, as __hash__
\* coerces them.
TripleEq_ByText(x, y) == x[1] = y[1] /\ x[2] = y[2] /\ PyToStr(x[3]) = PyToStr(y[3])

\* tuple == tuple on two triples
TripleEq(x, y) == x[1] = y[1] /\ x[2] = y[2] /\ PyEq(x[3], y[3])

\* to_dict
to_dict(self) ==
    [subject |-> PyStr(self.subj),
     predicate |-> PyStr(self.pred),
     object |-> self.obj,
     confidence |-> PyFloat(self.confidence),
     source |-> self.source,
     type |-> IF PyTruthy(self.predicate_type) THEN self.predicate_type ELSE PyNone,
     metadata |-> PyDict(self.metadata)]

\* from_dict: the outcome, [exc, obj].  Line 50 runs first; the arguments of
\* cls(...) are then evaluated in order, each data[key] raising KeyError for
\* a key the mapping lacks.
from_dict(d) ==
    LET typeArg == IF PyTruthy(DictGet(d, "type", PyNone)) THEN d["type"] ELSE PyNone
        pred_type == PredicateType(typeArg)
    IN  IF pred_type.exc # "none" THEN [exc |-> pred_type.exc, obj |-> NoInstance]
        ELSE IF "subject" \notin DOMAIN d THEN [exc |-> "KeyError", obj |-> NoInstance]
        ELSE IF "predicate" \notin DOMAIN d THEN [exc |-> "KeyError", obj |-> NoInstance]
        ELSE IF "obj" \notin DOMAIN d THEN [exc |-> "KeyError", obj |-> NoInstance]
        ELSE Predicate(CtorArgs(d["subject"].v,
                          d["predicate"].v,
                          d["obj"],
                          DictGet(d, "confidence", PyFloat(ConfDen)).v[1],
                          DictGet(d, "source", PyNone),
                          pred_type.val,
                          DictGet(d, "metadata", PyDict(EmptyDict)).v[1]))

negation_predicates ==
    { <<"c","a","n","n","o","t">>,
      <<"s","h","a","l","l","_","n","o","t">>,
      <<"s","h","o","u","l","d","_","n","o","t">>,
      <<"m","u","s","t","_","n","o","t">>,
      <<"i","s","_","n","o","t">>,
      <<"a","r","e","_","n","o","t">>,
      <<"d","o","e","s","_","n","o","t">>,
      <<"d","o","_","n","o","t">>,
      <<"f","o","r","b","i","d","s">>,
      <<"r","e","s","t","r","i","c","t","s">>,
      <<"w","a","s","_","n","o","t">>,
      <<"w","e","r","e","_","n","o","t">>,
      <<"o","u","g","h","t","_","n","o","t">>,
      <<"m","i","g","h","t","_","n","o","t">> }

NotPrefix == <<"n", "o", "t", "_">>

\* A classification that looks for "not_" anywhere in the relation.
is_negation_Contains(self) ==
    self.pred \in negation_predicates \/ StrIn(NotPrefix, self.pred)

\* is_negation
is_negation(self) ==
    self.pred \in negation_predicates \/ StrStartsWith(self.pred, NotPrefix)

\* A normalization that leaves underscores in place.
Normalize_KeepUnderscore(s) ==
    StrJoin(<<" ">>, StrSplit(StrStrip(StrLower(s))))

\* _fuzzy_match lines 75-79: lower, strip, underscores to spaces, split and
\* rejoin with single spaces
Normalize(s) ==
    StrJoin(<<" ">>, StrSplit(StrReplace(StrStrip(StrLower(s)), "_", " ")))

\* The default of _fuzzy_match's threshold parameter, 0.5, as a fraction.
threshold == [num |-> 1, den |-> 2]

\* A similarity rule that tests the substring relation in one direction only.
_fuzzy_match_OneWay(s1, s2) ==
    LET n1 == Normalize(s1)
        n2 == Normalize(s2)
    IN  IF n1 = n2 THEN TRUE
        ELSE IF StrIn(n1, n2) THEN TRUE
        ELSE LET words1 == WordSet(StrSplit(n1))
                 words2 == WordSet(StrSplit(n2))
             IN  IF words1 = {} \/ words2 = {} THEN FALSE
                 ELSE LET intersection == Cardinality(words1 \cap words2)
                          union == Cardinality(words1 \cup words2)
                      IN  IF union = 0 THEN FALSE
                          ELSE intersection * threshold.den >= threshold.num * union

\* _fuzzy_match(s1, s2) with the default threshold
_fuzzy_match(s1, s2) ==
    LET n1 == Normalize(s1)
        n2 == Normalize(s2)
    IN  IF n1 = n2 THEN TRUE
        ELSE IF StrIn(n1, n2) \/ StrIn(n2, n1) THEN TRUE
        ELSE LET words1 == WordSet(StrSplit(n1))
                 words2 == WordSet(StrSplit(n2))
             IN  IF words1 = {} \/ words2 = {} THEN FALSE
                 ELSE LET intersection == Cardinality(words1 \cap words2)
                          union == Cardinality(words1 \cup words2)
                      IN  IF union = 0 THEN FALSE
                          ELSE intersection * threshold.den >= threshold.num * union

\* matches(self, other, fuzzy)
matches(self, other, fuzzy) ==
    IF fuzzy
    THEN /\ _fuzzy_match(self.subj, other.subj)
         /\ self.pred = other.pred
         /\ _fuzzy_match(PyToStr(self.obj), PyToStr(other.obj))
    ELSE TripleEq(to_triple(self), to_triple(other))

\* isinstance(other, Predicate)
IsPredicate(other) == "made" \in DOMAIN other

\* __eq__
__eq__(self, other) ==
    IF ~IsPredicate(other) THEN FALSE
    ELSE TripleEq(to_triple(self), to_triple(other))

\* The builtin hash(...): it takes exactly one argument; the hash of a value
\* is held as the value itself.
BuiltinHash(argv) ==
    IF Len(argv) # 1
    THEN [exc |-> "TypeError", val |-> <<>>]
    ELSE [exc |-> "none", val |-> argv[1]]

\* __hash__
__hash__(self) == BuiltinHash(<<self.subj, self.pred, PyToStr(self.obj)>>)

-----------------------------------------------------------------------------
(* Inputs.                                                                 *)

\* Every text over Alphabet of length at most MaxLen.
BoundedTexts == UNION {[1..n -> Alphabet] : n \in 0..MaxLen}

Txt_s == <<"s">>
Txt_r == <<"r">>
Txt_o == <<"o">>

\* Confidence values from just below 0 to just above 1.
Confidences == (-1)..(ConfDen + 1)

\* Texts that exercise trimming of tabs and newlines and blank input.
EdgeTexts ==
    { <<>>, <<" ">>, <<"\t", "\n">>, <<"r">>, <<" ", "r", " ">>, <<"\t", "r", "\n">> }

EdgeObjects ==
    { PyNone, PyStr(<<>>), PyStr(<<" ">>), PyStr(Txt_o), PyStr(<<" ", "o", "\t">>),
      PyInt(0), PyInt(7) }

\* Relation texts around the negation rule: the tokens, near misses, prefixes.
RelationTexts ==
    negation_predicates \cup BoundedTexts \cup
    { <<"n", "o", "t", "_", "a", "l", "l", "o", "w", "e", "d">>,
      <<"a", "l", "l", "o", "w", "s">>,
      <<"C", "a", "n", "n", "o", "t">>,
      <<"C", "A", "N", "N", "O", "T">>,
      <<"n", "o", "t">>,
      <<"n", "o", "t", "_">>,
      <<"n", "o", "t", " ", "a", "l", "l", "o", "w", "e", "d">>,
      <<"N", "o", "t", "_", "a", "l", "l", "o", "w", "e", "d">>,
      <<" ", "c", "a", "n", "n", "o", "t", " ">>,
      <<"\t", "n", "o", "t", "_", "x">>,
      <<"c", "a", "n", "n", "o", "t", "_">>,
      <<"c", "a", "n", " ", "n", "o", "t">>,
      <<"x", "n", "o", "t", "_">>,
      <<"i", "s", "_", "n", "o">>,
      <<"f", "o", "r", "b", "i", "d">>,
      <<"f", "o", "r", "b", "i", "d", "s", "s">>,
      <<"n">>,
      <<"n", "o">>,
      <<"m", "u", "s", "t", "_", "n", "o", "t", "_">>,
      <<"n", "o", "t", "a", "l", "l", "o", "w", "e", "d">> }

\* Texts that exercise the similarity rule: the specification's examples,
\* shared and disjoint words, Jaccard ratios 1/3, 2/5 and 1/2, and texts made
\* of separators only.
SampleTexts ==
    { <<"M", "I", "T", " ", "L", "i", "c", "e", "n", "s", "e">>,
      <<"M", "I", "T">>,
      <<"c", "o", "m", "m", "e", "r", "c", "i", "a", "l", "_", "u", "s", "e">>,
      <<"c", "o", "m", "m", "e", "r", "c", "i", "a", "l", " ", "u", "s", "e">>,
      <<"a", " ", "b">>,
      <<"a", " ", "c">>,
      <<"b", " ", "a">>,
      <<"a", " ", "b", " ", "c">>,
      <<"a", " ", "b", " ", "d">>,
      <<"a", " ", "b", " ", "d", " ", "e">>,
      <<"a", " ", " ", "b">>,
      <<"a", "\t", "b">>,
      <<"A", "_", "B">>,
      <<"A">>,
      <<"x">>,
      <<"y">>,
      <<"7">>,
      <<"_">>,
      <<"_", "_", " ", "_">> }

Texts == BoundedTexts \cup SampleTexts

ObjectValues == {PyStr(t) : t \in Texts} \cup {PyInt(0), PyInt(7), PyInt(10)}

Txt_allows == <<"a", "l", "l", "o", "w", "s">>

\* A small pool of constructor arguments for three-way comparisons.
PoolSubjects == { <<"a", " ", "b">>, <<"a">>, <<" ", "a">>, <<"a", " ", "c">> }
PoolRelations == { Txt_r, <<"R">> }
Pool ==
    {Plain(subj, pred, PyStr(Txt_o)) : subj \in PoolSubjects, pred \in PoolRelations}
    \cup {Plain(<<"a">>, Txt_r, PyInt(7)), Plain(<<"a">>, Txt_r, PyStr(<<"7">>))}

\* The fields that are not part of the triple, in a few combinations.
Year == [year |-> PyInt(1991)]
Extras ==
    [confidence : {0, ConfDen}, source : {PyNone, PyStr(<<"w">>)},
     predicate_type : {PyNone, PyEnum("ASSERTION")}, metadata : {EmptyDict, Year}]

WithExtras(subj, pred, obj, e) ==
    CtorArgs(subj, pred, obj, e.confidence, e.source, e.predicate_type, e.metadata)

\* Every category: none, or one of the five members.
Categories == {PyNone} \cup {PyEnum(m) : m \in DOMAIN EnumValue}

RecordExtras ==
    [confidence : {0, 1, ConfDen}, source : {PyNone, PyStr(<<"w">>)},
     predicate_type : Categories, metadata : {EmptyDict, Year}]

\* What a mapping holds under each key other than subject and type.
KeyValue ==
    [predicate |-> PyStr(Txt_r),
     object |-> PyStr(Txt_o),
     obj |-> PyStr(Txt_o),
     confidence |-> PyFloat(1),
     source |-> PyStr(<<"w">>),
     metadata |-> PyDict(Year)]

\* Under subject: a text, a text to be trimmed, a blank text; or no such key.
SubjectValues == {PyStr(Txt_s), PyStr(<<"s", " ">>), PyStr(<<" ">>), PyNone}

\* Under type: the value of each member, a member, null, and texts that are
\* no member's value; or no such key.
Absent == [t |-> "absent", v |-> <<>>]
TypeValues ==
    {PyStr(EnumValue[m]) : m \in DOMAIN EnumValue}
    \cup {PyEnum("RELATION"), PyNone, PyStr(<<>>),
          PyStr(<<"b", "o", "g", "u", "s">>), PyStr(<<"A", "s", "s", "e", "r", "t", "i", "o", "n">>)}

\* Every mapping over a subset of the keys; subject is present unless sv is
\* PyNone, type is present unless tv is Absent.
Mappings ==
    {[k \in keys \cup (IF sv = PyNone THEN {} ELSE {"subject"})
                 \cup (IF tv = Absent THEN {} ELSE {"type"}) |->
          IF k = "subject" THEN sv ELSE IF k = "type" THEN tv ELSE KeyValue[k]] :
        keys \in SUBSET DOMAIN KeyValue, sv \in SubjectValues,
        tv \in TypeValues \cup {Absent}}

-----------------------------------------------------------------------------
(* The calls: one action per operation.                                    *)

Slots == DOMAIN args

\* Predicate(...) for slot i; slots are constructed in order.
Construct(i) ==
    /\ ~objs[i].made
    /\ \A j \in 1..(i - 1) : objs[j].made
    /\ LET r == Predicate(args[i])
       IN  /\ objs' = [objs EXCEPT ![i] = r.obj]
           /\ ret' = IF r.exc = "none"
                     THEN Returned("Predicate", <<i>>, TRUE)
                     ELSE Raised("Predicate", <<i>>, r.exc)
    /\ UNCHANGED <<args, data>>

\* objs[i].is_negation()
IsNegationCall(i) ==
    /\ objs[i].made
    /\ ret' = Returned("is_negation", <<i>>, is_negation(objs[i]))
    /\ UNCHANGED <<args, objs, data>>

MatchesOp(fuzzy) == IF fuzzy THEN "matches(fuzzy=True)" ELSE "matches(fuzzy=False)"

\* objs[i].matches(objs[j], fuzzy)
MatchesCall(i, j, fuzzy) ==
    /\ objs[i].made /\ objs[j].made
    /\ ret' = Returned(MatchesOp(fuzzy), <<i, j>>, matches(objs[i], objs[j], fuzzy))
    /\ UNCHANGED <<args, objs, data>>

\* objs[i] == objs[j]
EqCall(i, j) ==
    /\ objs[i].made /\ objs[j].made
    /\ ret' = Returned("__eq__", <<i, j>>, __eq__(objs[i], objs[j]))
    /\ UNCHANGED <<args, objs, data>>

\* objs[i] == a value that is no Predicate
EqForeignCall(i) ==
    /\ objs[i].made
    /\ ret' = Returned("__eq__", <<i>>, __eq__(objs[i], PyStr(objs[i].subj)))
    /\ UNCHANGED <<args, objs, data>>

\* hash(objs[i])
HashCall(i) ==
    /\ objs[i].made
    /\ LET h == __hash__(objs[i])
       IN  ret' = IF h.exc = "none"
                  THEN [Returned("__hash__", <<i>>, TRUE) EXCEPT !.hash = h.val]
                  ELSE [Raised("__hash__", <<i>>, h.exc) EXCEPT !.hash = h.val]
    /\ UNCHANGED <<args, objs, data>>

\* objs[i].to_dict()
ToDictCall(i) ==
    /\ objs[i].made
    /\ data' = [made |-> TRUE, d |-> to_dict(objs[i])]
    /\ ret' = Returned("to_dict", <<i>>, TRUE)
    /\ UNCHANGED <<args, objs>>

\* The slot that holds what from_dict returns.
Restored == Len(objs)

\* Predicate.from_dict(data)
FromDictCall ==
    /\ data.made
    /\ LET r == from_dict(data.d)
       IN  /\ objs' = [objs EXCEPT ![Restored] = r.obj]
           /\ ret' = IF r.exc = "none"
                     THEN Returned("from_dict", <<Restored>>, TRUE)
                     ELSE Raised("from_dict", <<Restored>>, r.exc)
    /\ UNCHANGED <<args, data>>

-----------------------------------------------------------------------------
(* Specifications.                                                         *)

\* Construction and classification of one Predicate.
InitValidate ==
    \/ \E subj \in BoundedTexts, pred \in EdgeTexts, obj \in EdgeObjects, c \in Confidences :
           args = <<CtorArgs(subj, pred, obj, c, PyNone, PyNone, EmptyDict)>>
    \/ \E subj \in EdgeTexts, pred \in BoundedTexts, obj \in EdgeObjects, c \in Confidences :
           args = <<CtorArgs(subj, pred, obj, c, PyNone, PyNone, EmptyDict)>>
    \/ \E pred \in RelationTexts :
           args = <<Plain(Txt_s, pred, PyStr(Txt_o))>>

Init ==
    /\ InitValidate
    /\ objs = [i \in DOMAIN args |-> NoInstance]
    /\ data = NoData
    /\ ret = NoCall

Next ==
    \/ \E i \in Slots : Construct(i)
    \/ \E i \in Slots : IsNegationCall(i)

Spec == Init /\ [][Next]_vars

\* Matching of two or three Predicates.
InitMatch ==
    \/ \E s1 \in Texts, s2 \in Texts :
           args = <<Plain(s1, Txt_r, PyStr(Txt_o)), Plain(s2, Txt_r, PyStr(Txt_o))>>
    \/ \E o1 \in ObjectValues, o2 \in ObjectValues :
           args = <<Plain(Txt_s, Txt_r, o1), Plain(Txt_s, Txt_r, o2)>>
    \/ \E a \in Pool, b \in Pool, c \in Pool :
           args = <<a, b, c>>
    \/ \E e \in Extras, subj \in {Txt_s, <<"s", " ">>, <<"S">>}, obj \in {PyStr(Txt_o), PyStr(<<>>)} :
           args = <<Plain(Txt_s, Txt_r, PyStr(Txt_o)), WithExtras(subj, Txt_r, obj, e)>>
    \/ args = <<Plain(<<"M", "I", "T", " ", "L", "i", "c", "e", "n", "s", "e">>, Txt_allows, PyStr(<<"c", "o", "m", "m", "e", "r", "c", "i", "a", "l", "_", "u", "s", "e">>)),
                Plain(<<"M", "I", "T">>, Txt_allows, PyStr(<<"c", "o", "m", "m", "e", "r", "c", "i", "a", "l", " ", "u", "s", "e">>))>>
    \/ args = <<Plain(<<"A">>, Txt_r, PyStr(<<"x">>)), Plain(<<"B">>, Txt_r, PyStr(<<"y">>))>>

SpecMatchInit ==
    /\ InitMatch
    /\ objs = [i \in DOMAIN args |-> NoInstance]
    /\ data = NoData
    /\ ret = NoCall

NextMatch ==
    \/ \E i \in Slots : Construct(i)
    \/ \E i \in Slots, j \in Slots, fuzzy \in BOOLEAN : MatchesCall(i, j, fuzzy)

SpecMatch == SpecMatchInit /\ [][NextMatch]_vars

\* Conversion to and from a record: a Predicate is constructed, converted by
\* to_dict and read back by from_dict; or from_dict reads a given mapping.
InitRecord ==
    \/ /\ \E subj \in {Txt_s, <<" ", "s">>}, obj \in EdgeObjects \ {PyNone}, e \in RecordExtras :
              args = <<WithExtras(subj, Txt_r, obj, e)>>
       /\ data = NoData
    \/ /\ args = <<>>
       /\ \E d \in Mappings : data = [made |-> TRUE, d |-> d]

SpecRecordInit ==
    /\ InitRecord
    /\ objs = <<NoInstance, NoInstance>>
    /\ ret = NoCall

NextRecord ==
    \/ \E i \in Slots : Construct(i)
    \/ \E i \in Slots : ToDictCall(i)
    \/ FromDictCall

SpecRecord == SpecRecordInit /\ [][NextRecord]_vars

\* Identity of two Predicates: equality and hashing.
InitIdentity ==
    \/ \E a \in Pool, b \in Pool, e \in Extras :
           args = <<a, WithExtras(b.subj, b.pred, b.obj, e)>>
    \/ \E o1 \in EdgeObjects \ {PyNone}, o2 \in EdgeObjects \ {PyNone} :
           args = <<Plain(Txt_s, Txt_r, o1), Plain(Txt_s, Txt_r, o2)>>

SpecIdentityInit ==
    /\ InitIdentity
    /\ objs = [i \in DOMAIN args |-> NoInstance]
    /\ data = NoData
    /\ ret = NoCall

NextIdentity ==
    \/ \E i \in Slots : Construct(i)
    \/ \E i \in Slots, j \in Slots : EqCall(i, j)
    \/ \E i \in Slots : EqForeignCall(i)
    \/ \E i \in Slots : HashCall(i)

SpecIdentity == SpecIdentityInit /\ [][NextIdentity]_vars


-----------------------------------------------------------------------------
(* Properties.                                                             *)

\* A text is blank when it is empty or holds only whitespace.
Blank(s) == \A k \in DOMAIN s : s[k] \in Whitespace

\* The slot the most recent call was made on.
Callee == ret.who[1]

\* C1: Construct fails, leaving no instance, whenever the subject or the
\* relation is empty or whitespace-only, the object is null, or the confidence
\* lies outside [0, 1]; for every other input (the endpoints 0 and 1 included)
\* it succeeds and leaves an instance.
C1_ConstructValidates ==
    ret.op = "Predicate" =>
        LET a == args[Callee]
            bad == \/ Blank(a.subj)
                   \/ Blank(a.pred)
                   \/ a.obj = PyNone
                   \/ a.confidence < 0
                   \/ a.confidence > ConfDen
        IN  /\ (ret.exc # "none") = bad
            /\ objs[Callee].made = ~bad

\* A whitespace-only subject has been rejected.
C1_Witness ==
    /\ ret.op = "Predicate"
    /\ ret.exc = "ValueError"
    /\ args[1].subj = <<" ", " ">>
    /\ ~Blank(args[1].pred)
    /\ args[1].obj = PyStr(Txt_o)
    /\ args[1].confidence = ConfDen
    /\ ~objs[1].made

\* The fixed negative-relation tokens, as the specification lists them.
NegationTokens ==
    { <<"c", "a", "n", "n", "o", "t">>,
      <<"s", "h", "a", "l", "l", "_", "n", "o", "t">>,
      <<"s", "h", "o", "u", "l", "d", "_", "n", "o", "t">>,
      <<"m", "u", "s", "t", "_", "n", "o", "t">>,
      <<"i", "s", "_", "n", "o", "t">>,
      <<"a", "r", "e", "_", "n", "o", "t">>,
      <<"d", "o", "e", "s", "_", "n", "o", "t">>,
      <<"d", "o", "_", "n", "o", "t">>,
      <<"f", "o", "r", "b", "i", "d", "s">>,
      <<"r", "e", "s", "t", "r", "i", "c", "t", "s">>,
      <<"w", "a", "s", "_", "n", "o", "t">>,
      <<"w", "e", "r", "e", "_", "n", "o", "t">>,
      <<"o", "u", "g", "h", "t", "_", "n", "o", "t">>,
      <<"m", "i", "g", "h", "t", "_", "n", "o", "t">> }

\* C10: is_negation(p) is true exactly when p's relation is one of the fixed
\* tokens (exact, case-sensitive) or begins with "not_"; it is true for
\* "cannot" and "not_allowed", false for "allows"; it never fails and leaves
\* p as it was constructed.
C10_IsNegation ==
    ret.op = "is_negation" =>
        LET p == objs[Callee]
            rel == p.pred
            prefixed == /\ Len(rel) >= 4
                        /\ rel[1] = "n" /\ rel[2] = "o" /\ rel[3] = "t" /\ rel[4] = "_"
        IN  /\ ret.exc = "none"
            /\ ret.val = (rel \in NegationTokens \/ prefixed)
            /\ (rel = <<"c", "a", "n", "n", "o", "t">> => ret.val)
            /\ (rel = <<"n", "o", "t", "_", "a", "l", "l", "o", "w", "e", "d">> => ret.val)
            /\ (rel = <<"a", "l", "l", "o", "w", "s">> => ~ret.val)
            /\ p = Predicate(args[Callee]).obj

\* "not_allowed" has been classified as a negation.
C10_Witness ==
    /\ ret.op = "is_negation"
    /\ ret.val
    /\ objs[1].pred = <<"n", "o", "t", "_", "a", "l", "l", "o", "w", "e", "d">>

-----------------------------------------------------------------------------
(* Matching.                                                               *)

IsFuzzyCall == ret.op = "matches(fuzzy=True)"
IsExactCall == ret.op = "matches(fuzzy=False)"

\* The receiver and the argument of the most recent two-object call.
Self == objs[ret.who[1]]
Other == objs[ret.who[2]]

\* A separator is whitespace or an underscore.
Separator(c) == c \in Whitespace \cup {"_"}

\* The normal form of a text: letters lower-cased, every run of separators
\* between two words one space, separators at either end dropped.
NormalForm(s) ==
    LET keep(k) == \/ ~Separator(s[k])
                   \/ /\ k > 1
                      /\ ~Separator(s[k - 1])
                      /\ \E m \in (k + 1)..Len(s) : ~Separator(s[m])
        kept == SelectSeq([k \in 1..Len(s) |-> k], keep)
    IN  [n \in 1..Len(kept) |->
            IF Separator(s[kept[n]]) THEN " " ELSE LowerChar(s[kept[n]])]

\* x occurs in y as a contiguous run of characters.
SubstringOf(x, y) ==
    \E lo \in 1..(Len(y) + 1) :
        /\ lo + Len(x) - 1 <= Len(y)
        /\ \A k \in 1..Len(x) : y[lo + k - 1] = x[k]

\* The words of a normal form: its maximal runs without a space.
WordsOf(n) ==
    {SubSeq(n, lo, hi) : <<lo, hi>> \in
        {w \in (1..Len(n)) \X (1..Len(n)) :
            /\ w[1] <= w[2]
            /\ \A k \in w[1]..w[2] : n[k] # " "
            /\ (w[1] = 1 \/ n[w[1] - 1] = " ")
            /\ (w[2] = Len(n) \/ n[w[2] + 1] = " ")}}

\* Two texts are approximately equal.
ApproxEqual(x, y) ==
    LET n1 == NormalForm(x)
        n2 == NormalForm(y)
        w1 == WordsOf(n1)
        w2 == WordsOf(n2)
    IN  \/ n1 = n2
        \/ SubstringOf(n1, n2)
        \/ SubstringOf(n2, n1)
        \/ /\ w1 # {} /\ w2 # {}
           /\ 2 * Cardinality(w1 \cap w2) >= Cardinality(w1 \cup w2)

\* Two texts share no word and neither normal form occurs in the other.
Unrelated(x, y) ==
    LET n1 == NormalForm(x)
        n2 == NormalForm(y)
    IN  /\ WordsOf(n1) \cap WordsOf(n2) = {}
        /\ ~SubstringOf(n1, n2)
        /\ ~SubstringOf(n2, n1)

IsMITPair(a, b) ==
    /\ a.subj = <<"M", "I", "T", " ", "L", "i", "c", "e", "n", "s", "e">> /\ a.pred = Txt_allows
    /\ a.obj = PyStr(<<"c", "o", "m", "m", "e", "r", "c", "i", "a", "l", "_", "u", "s", "e">>)
    /\ b.subj = <<"M", "I", "T">> /\ b.pred = Txt_allows
    /\ b.obj = PyStr(<<"c", "o", "m", "m", "e", "r", "c", "i", "a", "l", " ", "u", "s", "e">>)

\* C4: fuzzy matches(a, b) is true exactly when the relations are equal
\* character for character, the subjects are approximately equal and the
\* texts of the objects are approximately equal: equal normal forms, or one
\* normal form a substring of the other, or both word sets non-empty with
\* 2 * |intersection| >= |union|.  The MIT example matches; predicates whose
\* subjects or objects are unrelated do not.
C4_FuzzyMatches ==
    IsFuzzyCall =>
        /\ ret.val = (/\ Self.pred = Other.pred
                      /\ ApproxEqual(Self.subj, Other.subj)
                      /\ ApproxEqual(PyToStr(Self.obj), PyToStr(Other.obj)))
        /\ (IsMITPair(Self, Other) => ret.val)
        /\ (Unrelated(Self.subj, Other.subj) => ~ret.val)
        /\ (Unrelated(PyToStr(Self.obj), PyToStr(Other.obj)) => ~ret.val)

\* The MIT example has been matched in fuzzy mode.
C4_Witness ==
    /\ IsFuzzyCall
    /\ IsMITPair(Self, Other)
    /\ ret.val

\* C5: fuzzy matching is reflexive and symmetric: a matches itself, and the
\* call a.matches(b) returns what b.matches(a) returns.  (That it is not
\* transitive is shown by the state C5_Witness describes.)
C5_FuzzyReflexiveSymmetric ==
    IsFuzzyCall =>
        /\ (ret.who[1] = ret.who[2] => ret.val)
        /\ matches(Self, Self, TRUE)
        /\ ret.val = matches(Other, Self, TRUE)

\* Three Predicates A, B, C with A ~ B and B ~ C in fuzzy mode, and a call
\* that found A and C not to match.
C5_Witness ==
    /\ IsFuzzyCall
    /\ ret.who = <<1, 3>>
    /\ ~ret.val
    /\ matches(objs[1], objs[2], TRUE)
    /\ matches(objs[2], objs[3], TRUE)

\* A text without the whitespace around it.
Trimmed(s) ==
    LET inner == {k \in DOMAIN s : s[k] \notin Whitespace}
    IN  IF inner = {} THEN <<>>
        ELSE SubSeq(s, CHOOSE k \in inner : \A m \in inner : k <= m,
                       CHOOSE k \in inner : \A m \in inner : k >= m)

\* Two constructor inputs denote the same triple: texts equal once trimmed,
\* other objects equal by value.
SameTriple(a, b) ==
    /\ Trimmed(a.subj) = Trimmed(b.subj)
    /\ Trimmed(a.pred) = Trimmed(b.pred)
    /\ a.obj.t = b.obj.t
    /\ IF a.obj.t = "str" THEN Trimmed(a.obj.v) = Trimmed(b.obj.v)
       ELSE a.obj.v = b.obj.v

\* C6: exact matches(a, b) is true exactly when the triples are identical,
\* texts compared trimmed and case-sensitively, whatever the confidence,
\* source, category and metadata; it is reflexive, symmetric and transitive.
C6_ExactMatches ==
    IsExactCall =>
        /\ ret.val = SameTriple(args[ret.who[1]], args[ret.who[2]])
        /\ (ret.who[1] = ret.who[2] => ret.val)
        /\ ret.val = matches(Other, Self, FALSE)
        /\ \A k \in Slots :
              (ret.val /\ objs[k].made /\ matches(Other, objs[k], FALSE))
                  => matches(Self, objs[k], FALSE)

\* Inputs that differ in surrounding whitespace and in every field outside
\* the triple have matched exactly.
C6_Witness ==
    /\ IsExactCall
    /\ ret.who = <<1, 2>>
    /\ ret.val
    /\ args[1].subj # args[2].subj
    /\ args[1].confidence # args[2].confidence
    /\ args[1].source # args[2].source
    /\ args[1].predicate_type # args[2].predicate_type
    /\ args[1].metadata # args[2].metadata

\* Exactly one of two texts has an empty normal form.
OneEmpty(x, y) == (NormalForm(x) = <<>>) # (NormalForm(y) = <<>>)

\* C9: fuzzy matching raises no error, and when exactly one of the two
\* subjects, or of the two object texts, is empty after normalization the
\* Predicates do not match.
C9_EmptyNeverMatches ==
    IsFuzzyCall =>
        /\ ret.exc = "none"
        /\ (OneEmpty(Self.subj, Other.subj) => ~ret.val)
        /\ (OneEmpty(PyToStr(Self.obj), PyToStr(Other.obj)) => ~ret.val)

-----------------------------------------------------------------------------
(* Identity.                                                               *)

\* C3: equality and hashing depend only on the triple: two Predicates with
\* identical triples are equal, hashing each succeeds and gives the same
\* value; two Predicates with different triples are not equal.
C3_IdentityByTriple ==
    /\ (ret.op = "__eq__" /\ Len(ret.who) = 2) =>
          ret.val = SameTriple(args[ret.who[1]], args[ret.who[2]])
    /\ ret.op = "__hash__" =>
          /\ ret.exc = "none"
          /\ \A k \in Slots :
                (objs[k].made /\ SameTriple(args[k], args[Callee]))
                    => (__hash__(objs[k]).exc = "none" /\ __hash__(objs[k]).val = ret.hash)

-----------------------------------------------------------------------------
(* Records.                                                                *)

\* The most recent call was from_dict on the record to_dict made of objs[1].
IsRoundTrip == ret.op = "from_dict" /\ Len(args) = 1

\* The most recent call was from_dict on a given mapping.
IsFromMapping == ret.op = "from_dict" /\ Len(args) = 0

\* A value found under the type key is one of the five category tags.
IsTag(x) ==
    \/ x.t = "PredicateType"
    \/ x.t = "str" /\ \E m \in DOMAIN EnumValue : EnumValue[m] = x.v

\* The category a tag denotes.
TagCategory(x) ==
    IF x.t = "PredicateType" THEN x
    ELSE PyEnum(CHOOSE m \in DOMAIN EnumValue : EnumValue[m] = x.v)

RequiredKeys == {"subject", "predicate", "object"}

\* C2: FromRecord(ToRecord(p)) succeeds and yields a Predicate with p's
\* triple and with p's confidence, source, category and metadata.
C2_RoundTrip ==
    IsRoundTrip =>
        /\ ret.exc = "none"
        /\ objs[Restored].made
        /\ TripleEq(to_triple(objs[Restored]), to_triple(objs[1]))
        /\ objs[Restored].confidence = objs[1].confidence
        /\ PyEq(objs[Restored].source, objs[1].source)
        /\ PyEq(objs[Restored].predicate_type, objs[1].predicate_type)
        /\ objs[Restored].metadata = objs[1].metadata

\* C7: for a mapping with valid subject, predicate and object and a type
\* that is absent or one of the five tags, FromRecord succeeds; an absent
\* type gives no category, a tag gives that category, an absent confidence
\* gives 1.0, an absent source null, absent metadata the empty mapping.
C7_FromRecordDefaults ==
    (/\ IsFromMapping
     /\ RequiredKeys \subseteq DOMAIN data.d
     /\ ~Blank(data.d["subject"].v)
     /\ ("type" \in DOMAIN data.d => IsTag(data.d["type"])))
    =>  /\ ret.exc = "none"
        /\ objs[Restored].made
        /\ objs[Restored].predicate_type =
              (IF "type" \in DOMAIN data.d THEN TagCategory(data.d["type"]) ELSE PyNone)
        /\ ("confidence" \notin DOMAIN data.d => objs[Restored].confidence = ConfDen)
        /\ ("source" \notin DOMAIN data.d => objs[Restored].source = PyNone)
        /\ ("metadata" \notin DOMAIN data.d => objs[Restored].metadata = EmptyDict)

\* C8: FromRecord fails, producing no Predicate, when subject, predicate or
\* object is absent and when the type present is none of the five tags; a
\* mapping that holds subject, predicate and object is never rejected as
\* missing a field.
C8_FromRecordErrors ==
    IsFromMapping =>
        /\ ~(RequiredKeys \subseteq DOMAIN data.d)
              => (ret.exc # "none" /\ ~objs[Restored].made)
        /\ ("type" \in DOMAIN data.d /\ ~IsTag(data.d["type"]))
              => (ret.exc # "none" /\ ~objs[Restored].made)
        /\ RequiredKeys \subseteq DOMAIN data.d => ret.exc # "KeyError"

====
